---- MODULE Spec2Model ----
(***************************************************************************)
(* Model of process_video_segments.py: the segment pipeline coordinator    *)
(* (main), the duration prober (get_video_duration), the segmenter         *)
(* (split_video), the segment processor (process_segment) and the merger   *)
(* (merge_videos).                                                          *)
(*                                                                          *)
(* One run of main() is a sequential process.  Every external call         *)
(* (subprocess.run) is blocking, so each action below is the code between  *)
(* two blocking points, with the outcome of the external process drawn     *)
(* nondeterministically: it exits zero, exits non-zero, or the user        *)
(* interrupts it.  File names are sequences of character codes so that     *)
(* sorted() compares them as Python compares paths.                        *)
(***************************************************************************)
EXTENDS Integers, Sequences, FiniteSets, TLC

VARIABLES
    video_exists,       \* os.path.exists(args.video)
    mask_exists,        \* os.path.exists(args.mask)
    keep_segments,      \* args.keep_segments
    segment_duration,   \* args.segment_duration (seconds)
    pc,                 \* position of main()
    temp_dir,           \* the workspace: "unset", "exists" or "removed"
    fs_segments,        \* files in temp_dir/segments (set of names)
    fs_results,         \* result artifacts in temp_dir/results (set of paths)
    duration,           \* main's local: the probed duration, in ticks
    estimated_segments, \* main's local
    segments,           \* main's local: what split_video returned
    i,                  \* number of loop iterations completed
    processed_videos,   \* main's local
    list_file,          \* <tempdir>/video_list.txt: [exists, lines]
    merged,             \* merge_videos: "not_called", "returned" or "raised"
    calls,              \* log of the external processes run, with exit status
    exc,                \* the exception raised inside the try block, or "none"
    result,             \* what main() returned: "none", "return 0", "return 1"
    runs,               \* concurrent runs of the pipeline inside merge_videos
    wrapper,            \* a run of remove_subtitles.py's main()
    maskgen             \* a run of generate_mask_from_regions.py's main()

\* The programs other than the one pipeline run modelled in full.
others == <<runs, wrapper, maskgen>>

vars == <<video_exists, mask_exists, keep_segments, segment_duration, pc,
          temp_dir, fs_segments, fs_results, duration, estimated_segments,
          segments, i, processed_videos, list_file, merged, calls, exc, result,
          runs, wrapper, maskgen>>

args == <<video_exists, mask_exists, keep_segments, segment_duration>>

(***************************************************************************)
(* Bounds of the model.                                                     *)
(***************************************************************************)
MaxSegments == 3
MaxSegmentDuration == 2
TicksPerSecond == 2
MaxDurationTicks == 6
Margin == 8

(***************************************************************************)
(* Program constants.                                                       *)
(***************************************************************************)
PadWidth == 3

\* "segment_" and ".mp4" of the output pattern, as character codes.
SegmentPrefix == <<115, 101, 103, 109, 101, 110, 116, 95>>
SegmentSuffix == <<46, 109, 112, 52>>
DotChar == 46
ResultName == "inpaint_out.mp4"

(***************************************************************************)
(* File names.                                                              *)
(***************************************************************************)
Digit(d) == 48 + d

RECURSIVE Decimal(_)
Decimal(k) ==
    IF k < 10 THEN <<Digit(k)>>
    ELSE Append(Decimal(k \div 10), Digit(k % 10))

RECURSIVE ZeroPad(_, _)
ZeroPad(s, w) == IF Len(s) >= w THEN s ELSE ZeroPad(<<Digit(0)>> \o s, w)

\* The name the segment muxer gives its k-th output (k = 0, 1, ...) for the
\* pattern "segment_%03d.mp4": at least PadWidth digits, more when needed.
SegmentName(k) == SegmentPrefix \o ZeroPad(Decimal(k), PadWidth) \o SegmentSuffix

\* Python's comparison of two paths of one directory: the names compared
\* character by character, a proper prefix being the smaller.
RECURSIVE StrLess(_, _)
StrLess(a, b) ==
    IF a = <<>> THEN b # <<>>
    ELSE IF b = <<>> THEN FALSE
    ELSE IF Head(a) # Head(b) THEN Head(a) < Head(b)
    ELSE StrLess(Tail(a), Tail(b))

\* output_dir.glob("segment_*.mp4"): the emitted files, in some enumeration
\* order (sorted() does not depend on it, the names being distinct).
Glob(n) == [k \in 1..n |-> SegmentName(n - k)]

\* sorted(...)
Sorted(paths) == SortSeq(paths, StrLess)

\* Path.stem: the name without its last suffix.
Stem(name) ==
    LET dots == {k \in 1..Len(name) : name[k] = DotChar}
    IN  IF dots = {} THEN name
        ELSE SubSeq(name, 1, (CHOOSE k \in dots : \A j \in dots : j <= k) - 1)

\* Paths inside the workspace are sequences of components.
\* results_dir = temp_dir / "results"
ResultsDir == <<"results">>

\* Path(output_dir) / segment_name
OutputPath(segment) == Append(ResultsDir, Stem(segment))

\* A command line that names the path itself instead of its parent.
ParentSkipped(path) == path

\* output_path.parent
Parent(path) == SubSeq(path, 1, Len(path) - 1)

\* output_path / "inpaint_out.mp4"
ResultVideo(segment) == Append(OutputPath(segment), ResultName)

\* f"file '{video.absolute()}'\n"
ManifestLine(video) == [directive |-> "file", path |-> video]

RunStatus == {"ok", "nonzero", "interrupted"}
Durations == 0..MaxDurationTicks
SegmentCounts == 0..MaxSegments
LargeSegmentCounts == (10^PadWidth - Margin)..(10^PadWidth + Margin)

NoFile == [exists |-> FALSE, lines |-> <<>>]

\* No other program is running.
NoRuns == <<>>
NotStarted == [pc |-> "not_started"]
OthersIdle ==
    /\ runs = NoRuns
    /\ wrapper = NotStarted
    /\ maskgen = NotStarted

(***************************************************************************)
(* Initial state: main() after parse_args.                                  *)
(***************************************************************************)
Init ==
    /\ video_exists \in BOOLEAN
    /\ mask_exists \in BOOLEAN
    /\ keep_segments \in BOOLEAN
    /\ segment_duration \in 1..MaxSegmentDuration
    /\ pc = "validate"
    /\ temp_dir = "unset"
    /\ fs_segments = {}
    /\ fs_results = {}
    /\ duration = 0
    /\ estimated_segments = 0
    /\ segments = <<>>
    /\ i = 0
    /\ processed_videos = <<>>
    /\ list_file = NoFile
    /\ merged = "not_called"
    /\ calls = <<>>
    /\ exc = "none"
    /\ result = "none"
    /\ OthersIdle

(***************************************************************************)
(* The try statement of main(): where an exception raised in its body      *)
(* goes.  Only CalledProcessError and KeyboardInterrupt have a handler;    *)
(* any other exception runs the finally clause and leaves main().          *)
(***************************************************************************)
Raise(e) ==
    /\ exc' = e
    /\ pc' = CASE e = "CalledProcessError" -> "except_CalledProcessError"
               [] e = "KeyboardInterrupt" -> "except_KeyboardInterrupt"
               [] OTHER -> "finally"

\* subprocess.run(cmd, check=True) that did not exit zero.
RunError(status) ==
    IF status = "interrupted" THEN "KeyboardInterrupt" ELSE "CalledProcessError"

Call(tool, arg, out, status) ==
    [tool |-> tool, arg |-> arg, out |-> out, status |-> status]

(***************************************************************************)
(* main(): input validation and the creation of the workspace.             *)
(***************************************************************************)
\* A validation that forgets the mask.
VideoValidOnly == video_exists

InputsValid == video_exists /\ mask_exists

Validate ==
    /\ pc = "validate"
    /\ IF ~InputsValid
       THEN /\ pc' = "done"
            /\ result' = "return 1"
            /\ UNCHANGED temp_dir
       ELSE /\ pc' = "probe"
            /\ temp_dir' = "exists"
            /\ UNCHANGED result
    /\ UNCHANGED <<args, others, fs_segments, fs_results, duration, estimated_segments,
                   segments, i, processed_videos, list_file, merged, calls, exc>>

(***************************************************************************)
(* get_video_duration, and the estimate main() prints.                     *)
(***************************************************************************)
\* What ffprobe prints when it exits zero: a decimal number of seconds
\* (here a number of ticks) or a text float() cannot parse, such as "N/A".
ProbeOutputs ==
    [numeric : {TRUE}, value : Durations] \cup {[numeric |-> FALSE, value |-> 0]}

\* An estimate that forgets the last, shorter segment.
EstimatedSegmentsRoundedDown(d, s) == d \div (s * TicksPerSecond)

\* int(duration / args.segment_duration) + 1
EstimatedSegments(d, s) == (d \div (s * TicksPerSecond)) + 1

GetVideoDuration ==
    /\ pc = "probe"
    /\ \E status \in RunStatus, stdout \in ProbeOutputs :
          /\ calls' = Append(calls, Call("ffprobe", <<>>, <<>>, status))
          /\ IF status # "ok"
             THEN /\ Raise(RunError(status))
                  /\ UNCHANGED <<duration, estimated_segments>>
             ELSE IF ~stdout.numeric
             THEN /\ Raise("ValueError")
                  /\ UNCHANGED <<duration, estimated_segments>>
             ELSE /\ duration' = stdout.value
                  /\ estimated_segments' =
                         EstimatedSegments(stdout.value, segment_duration)
                  /\ pc' = "split"
                  /\ UNCHANGED exc
    /\ UNCHANGED <<args, others, temp_dir, fs_segments, fs_results, segments, i,
                   processed_videos, list_file, merged, result>>

(***************************************************************************)
(* split_video.  The toolchain decides how many files it emits; whatever   *)
(* it wrote before failing stays in the workspace.                         *)
(***************************************************************************)
\* sorted(output_dir.glob("segment_*.mp4")) when n files were emitted
SplitResult(n) == Sorted(Glob(n))

SplitVideo(counts) ==
    /\ pc = "split"
    /\ \E status \in RunStatus, n \in counts :
          /\ calls' = Append(calls, Call("segment", <<>>, <<>>, status))
          /\ fs_segments' = {SegmentName(k) : k \in 0..(n - 1)}
          /\ IF status # "ok"
             THEN /\ Raise(RunError(status))
                  /\ UNCHANGED <<segments, i, processed_videos>>
             ELSE /\ segments' = SplitResult(n)
                  /\ i' = 0
                  /\ processed_videos' = <<>>
                  /\ pc' = "loop"
                  /\ UNCHANGED exc
    /\ UNCHANGED <<args, others, temp_dir, fs_results, duration, estimated_segments,
                   list_file, merged, result>>

SplitVideoRun == SplitVideo(SegmentCounts)

(***************************************************************************)
(* process_segment, called by one iteration of main()'s loop.              *)
(***************************************************************************)
\* A list built by inserting at the front.
PrependResult(list, video) == <<video>> \o list

\* processed_videos.append(result_video)
AppendResult(list, video) == Append(list, video)

\* A process_segment that returns the path without looking for the file.
ResultAssumed(video, files) == TRUE

\* The check of line 73, after the inference process exited zero.
ResultFound(video, files) == video \in files

\* A loop that logs the failure of a segment and goes on to the next one.
InferenceFailureSkipped(status) ==
    /\ i' = i + 1
    /\ UNCHANGED <<processed_videos, pc, exc>>

\* What main() does when the inference process did not exit zero.
InferenceFailed(status) ==
    /\ Raise(RunError(status))
    /\ UNCHANGED <<i, processed_videos>>

\* A loop that stops one segment short.
LoopDoneOneShort == i + 1 >= Len(segments)

\* for i, segment in enumerate(segments, 1): the loop is exhausted.
LoopDone == i = Len(segments)

ProcessSegment ==
    /\ pc = "loop"
    /\ ~LoopDone
    /\ LET segment == segments[i + 1]
           result_video == ResultVideo(segment)
       IN  \E status \in RunStatus, wrote \in BOOLEAN :
              /\ calls' = Append(calls, Call("inference", segment,
                                             Parent(OutputPath(segment)), status))
              /\ fs_results' = IF status = "ok" /\ wrote
                               THEN fs_results \cup {result_video}
                               ELSE fs_results
              /\ IF status # "ok"
                 THEN InferenceFailed(status)
                 ELSE IF ~ResultFound(result_video, fs_results')
                 THEN /\ Raise("FileNotFoundError")
                      /\ UNCHANGED <<i, processed_videos>>
                 ELSE /\ processed_videos' = AppendResult(processed_videos, result_video)
                      /\ i' = i + 1
                      /\ UNCHANGED <<pc, exc>>
    /\ UNCHANGED <<args, others, temp_dir, fs_segments, duration, estimated_segments,
                   segments, list_file, merged, result>>

(***************************************************************************)
(* merge_videos, called when the loop is over, and main()'s return 0.      *)
(***************************************************************************)
\* The manifest merge_videos writes for video_list.
Manifest(video_list) == [k \in 1..Len(video_list) |-> ManifestLine(video_list[k])]

MergeVideos ==
    /\ pc = "loop"
    /\ LoopDone
    /\ \E status \in RunStatus :
          /\ calls' = Append(calls, Call("concat", Manifest(processed_videos),
                                         "output", status))
          /\ IF status # "ok"
             THEN /\ list_file' = [exists |-> TRUE, lines |-> Manifest(processed_videos)]
                  /\ merged' = "raised"
                  /\ Raise(RunError(status))
                  /\ UNCHANGED result
             ELSE /\ list_file' = NoFile
                  /\ merged' = "returned"
                  /\ result' = "return 0"
                  /\ pc' = "finally"
                  /\ UNCHANGED exc
    /\ UNCHANGED <<args, others, temp_dir, fs_segments, fs_results, duration,
                   estimated_segments, segments, i, processed_videos>>

(***************************************************************************)
(* The handlers and the finally clause of main().                          *)
(***************************************************************************)
ExceptCalledProcessError ==
    /\ pc = "except_CalledProcessError"
    /\ result' = "return 1"
    /\ pc' = "finally"
    /\ UNCHANGED <<args, others, temp_dir, fs_segments, fs_results, duration,
                   estimated_segments, segments, i, processed_videos, list_file,
                   merged, calls, exc>>

\* A handler that reports the interrupt and forgets to return 1.
ExceptKeyboardInterruptSilent ==
    /\ pc = "except_KeyboardInterrupt"
    /\ pc' = "finally"
    /\ UNCHANGED <<args, others, temp_dir, fs_segments, fs_results, duration,
                   estimated_segments, segments, i, processed_videos, list_file,
                   merged, calls, exc, result>>

ExceptKeyboardInterrupt ==
    /\ pc = "except_KeyboardInterrupt"
    /\ result' = "return 1"
    /\ pc' = "finally"
    /\ UNCHANGED <<args, others, temp_dir, fs_segments, fs_results, duration,
                   estimated_segments, segments, i, processed_videos, list_file,
                   merged, calls, exc>>

\* A cleanup that runs on the success path only.
CleanupOnSuccessOnly == ~keep_segments /\ temp_dir = "exists" /\ exc = "none"

\* if not args.keep_segments and temp_dir.exists()
CleanupWanted == ~keep_segments /\ temp_dir = "exists"

\* A cleanup that calls shutil.rmtree(temp_dir) without the exists() test
\* and without ignore_errors.
UnguardedCleanup ==
    IF keep_segments
    THEN UNCHANGED <<temp_dir, fs_segments, fs_results, exc>>
    ELSE IF temp_dir = "exists"
    THEN /\ temp_dir' = "removed"
         /\ fs_segments' = {}
         /\ fs_results' = {}
         /\ UNCHANGED exc
    ELSE /\ exc' = "FileNotFoundError"
         /\ UNCHANGED <<temp_dir, fs_segments, fs_results>>

\* The cleanup step, the body of the finally clause: what it does to the
\* workspace, and the exception it raises (none: the directory is tested
\* first and rmtree ignores errors).
CleanupBody ==
    IF CleanupWanted
    THEN /\ temp_dir' = "removed"
         /\ fs_segments' = {}
         /\ fs_results' = {}
         /\ UNCHANGED exc
    ELSE UNCHANGED <<temp_dir, fs_segments, fs_results, exc>>

Finally ==
    /\ pc = "finally"
    /\ CleanupBody
    /\ pc' = "done"
    /\ UNCHANGED <<args, others, duration, estimated_segments, segments, i,
                   processed_videos, list_file, merged, calls, result>>

\* How main() ended: the value it returned, or "raised" when an exception
\* left it.
Outcome == IF result = "none" THEN "raised" ELSE result

Next ==
    \/ Validate
    \/ GetVideoDuration
    \/ SplitVideoRun
    \/ ProcessSegment
    \/ MergeVideos
    \/ ExceptCalledProcessError
    \/ ExceptKeyboardInterrupt
    \/ Finally

Spec == Init /\ [][Next]_vars

(***************************************************************************)
(* split_video on long inputs: main() at its call of split_video (valid    *)
(* inputs, workspace created, a duration of 10^PadWidth seconds probed,    *)
(* one-second segments), the toolchain emitting about 10^PadWidth files.   *)
(***************************************************************************)
InitSplit ==
    /\ video_exists = TRUE
    /\ mask_exists = TRUE
    /\ keep_segments \in BOOLEAN
    /\ segment_duration = 1
    /\ pc = "split"
    /\ temp_dir = "exists"
    /\ fs_segments = {}
    /\ fs_results = {}
    /\ duration = (10^PadWidth) * TicksPerSecond
    /\ estimated_segments = EstimatedSegments(duration, segment_duration)
    /\ segments = <<>>
    /\ i = 0
    /\ processed_videos = <<>>
    /\ list_file = NoFile
    /\ merged = "not_called"
    /\ calls = <<Call("ffprobe", <<>>, <<>>, "ok")>>
    /\ exc = "none"
    /\ result = "none"
    /\ OthersIdle

SplitVideoLong == SplitVideo(LargeSegmentCounts)

NextSplit == SplitVideoLong

SpecSplit == InitSplit /\ [][NextSplit]_vars

(***************************************************************************)
(* The cleanup step run a second time, after main() has ended with the     *)
(* workspace created.                                                       *)
(***************************************************************************)
CleanupAgain ==
    /\ pc = "done"
    /\ temp_dir # "unset"
    /\ CleanupBody
    /\ pc' = "cleaned_again"
    /\ UNCHANGED <<args, others, duration, estimated_segments, segments, i,
                   processed_videos, list_file, merged, calls, result>>

NextCleanup ==
    \/ Next
    \/ CleanupAgain

SpecCleanup == Init /\ [][NextCleanup]_vars

(***************************************************************************)
(* Two runs of the pipeline at the same time on one machine.  Each is its  *)
(* own process with its own workspace and has processed its segments; what *)
(* they share is the manifest path of merge_videos,                        *)
(* tempfile.gettempdir()/video_list.txt.  A step of a run is the writing   *)
(* of the manifest, the concatenation or the unlink.                       *)
(***************************************************************************)
RunIds == {1, 2}

\* tempfile.mkdtemp(prefix="propainter_segments_"): a fresh name per run
Workspace(r) == <<"propainter_segments_", r>>

\* processed_videos of run r after n segments, as absolute paths
RunVideoList(r, n) ==
    [k \in 1..n |-> Workspace(r) \o ResultVideo(SegmentName(k - 1))]

NothingRead == [done |-> FALSE, lines |-> <<>>]

\* main() itself is not stepped in the specifications of the other programs.
MainNotStarted ==
    /\ video_exists = TRUE
    /\ mask_exists = TRUE
    /\ keep_segments = FALSE
    /\ segment_duration = 1
    /\ pc = "not_started"
    /\ temp_dir = "unset"
    /\ fs_segments = {}
    /\ fs_results = {}
    /\ duration = 0
    /\ estimated_segments = 0
    /\ segments = <<>>
    /\ i = 0
    /\ processed_videos = <<>>
    /\ merged = "not_called"
    /\ calls = <<>>
    /\ exc = "none"
    /\ result = "none"

main_vars == <<video_exists, mask_exists, keep_segments, segment_duration, pc,
               temp_dir, fs_segments, fs_results, duration, estimated_segments,
               segments, i, processed_videos, merged, calls, exc, result>>

InitConcurrent ==
    /\ MainNotStarted
    /\ list_file = NoFile
    /\ wrapper = NotStarted
    /\ maskgen = NotStarted
    /\ \E n \in [RunIds -> 1..MaxSegments] :
          runs = [r \in RunIds |->
                    [pc |-> "write", video_list |-> RunVideoList(r, n[r]),
                     read |-> NothingRead]]

\* with open(list_file, 'w') as f: ... f.write(...)
WriteManifest(r) ==
    /\ runs[r].pc = "write"
    /\ list_file' = [exists |-> TRUE, lines |-> Manifest(runs[r].video_list)]
    /\ runs' = [runs EXCEPT ![r].pc = "concat"]
    /\ UNCHANGED <<main_vars, wrapper, maskgen>>

\* subprocess.run(['ffmpeg', '-f', 'concat', ..., '-i', list_file, ...],
\* check=True): ffmpeg reads whatever the path holds when it runs, and
\* cannot exit zero when the path does not exist.
Concat(r) ==
    /\ runs[r].pc = "concat"
    /\ \E status \in RunStatus :
          /\ status = "ok" => list_file.exists
          /\ runs' = [runs EXCEPT
                         ![r].pc = IF status = "ok" THEN "unlink" ELSE "raised",
                         ![r].read = IF list_file.exists
                                     THEN [done |-> TRUE, lines |-> list_file.lines]
                                     ELSE NothingRead]
    /\ UNCHANGED <<main_vars, list_file, wrapper, maskgen>>

\* list_file.unlink(): FileNotFoundError when the path is gone
Unlink(r) ==
    /\ runs[r].pc = "unlink"
    /\ IF list_file.exists
       THEN /\ list_file' = NoFile
            /\ runs' = [runs EXCEPT ![r].pc = "returned"]
       ELSE /\ runs' = [runs EXCEPT ![r].pc = "raised"]
            /\ UNCHANGED list_file
    /\ UNCHANGED <<main_vars, wrapper, maskgen>>

NextConcurrent ==
    \E r \in RunIds :
        \/ WriteManifest(r)
        \/ Concat(r)
        \/ Unlink(r)

SpecConcurrent == InitConcurrent /\ [][NextConcurrent]_vars

(***************************************************************************)
(* IEEE 754 binary64 arithmetic, as far as the mask generator uses it:     *)
(* non-negative values, round to nearest even.  A natural number is a      *)
(* sequence of limbs in base 2^LimbBits, least significant first, without  *)
(* leading zeros; a double is [m, e] with value m * 2^e, where m has       *)
(* MantissaBits bits (or is empty, for 0.0).                               *)
(***************************************************************************)
MantissaBits == 53
LimbBits == 16
GuardShift == 80

Base == 2^LimbBits

RECURSIVE Trim(_)
Trim(n) == IF n = <<>> \/ n[Len(n)] # 0 THEN n ELSE Trim(SubSeq(n, 1, Len(n) - 1))

RECURSIVE FromNat(_)
FromNat(v) == IF v = 0 THEN <<>> ELSE <<v % Base>> \o FromNat(v \div Base)

RECURSIVE ToNat(_)
ToNat(n) == IF n = <<>> THEN 0 ELSE n[1] + Base * ToNat(Tail(n))

Limb(n, k) == IF k >= 1 /\ k <= Len(n) THEN n[k] ELSE 0

\* the number of bits of a limb, and of a natural
LimbLength(v) == CHOOSE k \in 0..LimbBits : v < 2^k /\ (k = 0 \/ v >= 2^(k - 1))

BitLength(n) == IF n = <<>> THEN 0 ELSE LimbBits * (Len(n) - 1) + LimbLength(n[Len(n)])

\* n * 2^s
ShiftLeft(n, s) ==
    LET q == s \div LimbBits
        r == s % LimbBits
    IN  Trim([k \in 1..(Len(n) + q + 1) |->
                 IF k <= q THEN 0
                 ELSE (Limb(n, k - q) % 2^(LimbBits - r)) * 2^r
                      + (Limb(n, k - q - 1) \div 2^(LimbBits - r))])

\* n \div 2^s
ShiftRight(n, s) ==
    LET q == s \div LimbBits
        r == s % LimbBits
    IN  Trim([k \in 1..(Len(n) - q) |->
                 (Limb(n, k + q) \div 2^r) + (Limb(n, k + q + 1) % 2^r) * 2^(LimbBits - r)])

\* bit p of n, bit 1 being the least significant
BitAt(n, p) == (Limb(n, ((p - 1) \div LimbBits) + 1) \div 2^((p - 1) % LimbBits)) % 2

\* some of the s lowest bits of n is set
AnySet(n, s) ==
    \/ \E k \in 1..(s \div LimbBits) : Limb(n, k) # 0
    \/ Limb(n, (s \div LimbBits) + 1) % 2^(s % LimbBits) # 0

RECURSIVE AddCarry(_, _, _)
AddCarry(a, b, c) ==
    IF a = <<>> /\ b = <<>> THEN FromNat(c)
    ELSE <<(Limb(a, 1) + Limb(b, 1) + c) % Base>>
         \o AddCarry(SubSeq(a, 2, Len(a)), SubSeq(b, 2, Len(b)),
                     (Limb(a, 1) + Limb(b, 1) + c) \div Base)

AddNat(a, b) == AddCarry(a, b, 0)

\* a - b for a >= b
RECURSIVE SubBorrow(_, _, _)
SubBorrow(a, b, c) ==
    IF a = <<>> THEN <<>>
    ELSE <<(a[1] - Limb(b, 1) - c) % Base>>
         \o SubBorrow(Tail(a), SubSeq(b, 2, Len(b)),
                      IF a[1] - Limb(b, 1) - c < 0 THEN 1 ELSE 0)

SubNat(a, b) == Trim(SubBorrow(a, b, 0))

\* n * w for a natural w below 2^15
RECURSIVE MulCarry(_, _, _)
MulCarry(n, w, c) ==
    IF n = <<>> THEN FromNat(c)
    ELSE <<(n[1] * w + c) % Base>> \o MulCarry(Tail(n), w, (n[1] * w + c) \div Base)

MulSmall(n, w) == Trim(MulCarry(n, w, 0))

\* n divided by a natural q below 2^15: the quotient and the remainder
RECURSIVE DivStep(_, _, _, _)
DivStep(n, k, q, acc) ==
    IF k = 0 THEN acc
    ELSE DivStep(n, k - 1, q,
                 [quot |-> <<(acc.rem * Base + n[k]) \div q>> \o acc.quot,
                  rem |-> (acc.rem * Base + n[k]) % q])

DivSmall(n, q) ==
    LET d == DivStep(n, Len(n), q, [quot |-> <<>>, rem |-> 0])
    IN  [quot |-> Trim(d.quot), rem |-> d.rem]

\* a < b
RECURSIVE LessFrom(_, _, _)
LessFrom(a, b, k) ==
    IF k = 0 THEN FALSE
    ELSE IF a[k] # b[k] THEN a[k] < b[k]
    ELSE LessFrom(a, b, k - 1)

LessNat(a, b) == IF Len(a) # Len(b) THEN Len(a) < Len(b) ELSE LessFrom(a, b, Len(a))

FloatZero == [m |-> <<>>, e |-> 0]

\* The double nearest to (n + f) * 2^e, where 0 <= f < 1 and f > 0 iff
\* sticky; ties go to the even mantissa.
RoundToDouble(n, e, sticky) ==
    IF n = <<>> THEN FloatZero
    ELSE IF BitLength(n) <= MantissaBits
    THEN [m |-> ShiftLeft(n, MantissaBits - BitLength(n)),
          e |-> e - (MantissaBits - BitLength(n))]
    ELSE LET d == BitLength(n) - MantissaBits
             kept == ShiftRight(n, d)
             up == BitAt(n, d) = 1 /\ (AnySet(n, d - 1) \/ sticky \/ BitAt(kept, 1) = 1)
             m == IF up THEN AddNat(kept, <<1>>) ELSE kept
         IN  IF BitLength(m) > MantissaBits
             THEN [m |-> ShiftRight(m, 1), e |-> e + d + 1]
             ELSE [m |-> m, e |-> e + d]

\* float(s) for the decimal numeral s of k / q: the double nearest to k / q
FromDecimal(k, q) ==
    LET d == DivSmall(ShiftLeft(FromNat(k), GuardShift), q)
    IN  RoundToDouble(d.quot, 0 - GuardShift, d.rem # 0)

\* float(v) for a small natural v
FromInt(v) == RoundToDouble(FromNat(v), 0, FALSE)

FloatLess(x, y) ==
    IF y.m = <<>> THEN FALSE
    ELSE IF x.m = <<>> THEN TRUE
    ELSE IF x.e # y.e THEN x.e < y.e
    ELSE LessNat(x.m, y.m)

FloatLeq(x, y) == ~FloatLess(y, x)

FloatMin(x, y) == IF FloatLess(y, x) THEN y ELSE x

FloatMax(x, y) == IF FloatLess(x, y) THEN y ELSE x

\* 1.0 - x for 0.0 <= x <= 1.0
OneMinus(x) ==
    IF x.m = <<>> THEN FromInt(1)
    ELSE RoundToDouble(SubNat(ShiftLeft(<<1>>, 0 - x.e), x.m), x.e, FALSE)

\* x * v for an int v (converted to a double, exactly)
MulInt(x, v) == RoundToDouble(MulSmall(x.m, v), x.e, FALSE)

\* int(np.floor(x)) and int(np.ceil(x))
Floor(x) ==
    IF x.e >= 0 THEN ToNat(ShiftLeft(x.m, x.e)) ELSE ToNat(ShiftRight(x.m, 0 - x.e))

Ceil(x) ==
    IF x.e >= 0 THEN Floor(x)
    ELSE Floor(x) + (IF AnySet(x.m, 0 - x.e) THEN 1 ELSE 0)

(***************************************************************************)
(* scripts/generate_mask_from_regions.py.  A coordinate given on the       *)
(* command line or in the JSON file is a decimal numeral with one          *)
(* fractional digit, written here as its numerator over CoordScale; a      *)
(* region is <<left, top, right, bottom>>.  The rendered mask is the list  *)
(* of the rectangles painted white, <<x1, y1, x2, y2>> each.               *)
(***************************************************************************)
CoordScale == 10

Lefts == {1}
Tops == {2, 8, 12}
Rights == {1, 9}
Bottoms == {0, 2, 8}
Numerals == Lefts \cup Tops \cup Rights \cup Bottoms

RegionInputs == {<<l, t, r, b>> : l \in Lefts, t \in Tops, r \in Rights, b \in Bottoms}
RegionLists == {<<>>} \cup {<<region>> : region \in RegionInputs}
NoJson == [given |-> FALSE, regions |-> <<>>]
JsonInputs == {NoJson, [given |-> TRUE, regions |-> <<>>],
               [given |-> TRUE, regions |-> <<<<1, 8, 9, 2>>>>]}
Origins == {"left-bottom", "left-top"}
ImageSizes == {<<1000, 500>>, <<3, 2>>}

NoMask == [rendered |-> FALSE, rectangles |-> <<>>]

\* type=float of argparse, float(v) of parse_json_regions
ReadRegion(region) == [k \in 1..4 |-> FromDecimal(region[k], CoordScale)]

ReadRegions(list) == [k \in 1..Len(list) |-> ReadRegion(list[k])]

clamp01(value) == FloatMax(FromInt(0), FloatMin(FromInt(1), value))

WidthRejected(left, right) == FloatLeq(right, left)

HeightRejectedAsLeftTop(origin, top, bottom) == FloatLeq(bottom, top)

HeightRejected(origin, top, bottom) ==
    IF origin = "left-bottom" THEN FloatLeq(top, bottom) ELSE FloatLeq(bottom, top)

RECURSIVE parse_regions(_, _)
parse_regions(region_args, origin) ==
    IF region_args = <<>> THEN [raised |-> FALSE, regions |-> <<>>]
    ELSE LET region == [k \in 1..4 |-> clamp01(Head(region_args)[k])]
             rest == parse_regions(Tail(region_args), origin)
         IN  IF \/ WidthRejected(region[1], region[3])
                \/ HeightRejected(origin, region[2], region[4])
                \/ rest.raised
             THEN [raised |-> TRUE, regions |-> <<>>]
             ELSE [raised |-> FALSE, regions |-> <<region>> \o rest.regions]

parse_json_regions(region_json) == IF region_json.given THEN region_json.regions ELSE <<>>

Min(a, b) == IF b < a THEN b ELSE a

Max(a, b) == IF b > a THEN b ELSE a

convert_region_to_pixels(region, width, height, origin) ==
    LET y_top_ratio == IF origin = "left-bottom" THEN OneMinus(region[2]) ELSE region[2]
        y_bottom_ratio == IF origin = "left-bottom" THEN OneMinus(region[4]) ELSE region[4]
        x1 == Max(0, Min(width, Floor(MulInt(region[1], width))))
        x2 == Max(0, Min(width, Ceil(MulInt(region[3], width))))
        y1 == Max(0, Min(height, Floor(MulInt(y_top_ratio, height))))
        y2 == Max(0, Min(height, Ceil(MulInt(y_bottom_ratio, height))))
    IN  [raised |-> x2 <= x1 \/ y2 <= y1, rectangle |-> <<x1, y1, x2, y2>>]

RECURSIVE render_mask(_, _, _, _)
render_mask(width, height, regions, origin) ==
    IF regions = <<>> THEN [raised |-> FALSE, rectangles |-> <<>>]
    ELSE LET first == convert_region_to_pixels(Head(regions), width, height, origin)
             rest == render_mask(width, height, Tail(regions), origin)
         IN  IF first.raised \/ rest.raised
             THEN [raised |-> TRUE, rectangles |-> <<>>]
             ELSE [raised |-> FALSE, rectangles |-> <<first.rectangle>> \o rest.rectangles]

\* mask[y1:y2, x1:x2] = 255
Columns(rectangle) == rectangle[1]..(rectangle[3] - 1)

Rows(rectangle) == rectangle[2]..(rectangle[4] - 1)

\* The generator after parse_args.
GenStart(video, cli, json, origin, size, per_frame, suffix) ==
    [pc |-> "parse", video_exists |-> video, cli_regions |-> cli, region_json |-> json,
     origin |-> origin, size |-> size, per_frame |-> per_frame, output_suffix |-> suffix,
     regions |-> <<>>, mask |-> NoMask, written |-> "none", exc |-> "none",
     failed_at |-> "none"]

GenRaise(e, stage) == [maskgen EXCEPT !.pc = "exited", !.exc = e, !.failed_at = stage]

NoRegionsIgnored(regions) == FALSE

\* if not regions
NoRegions(regions) == regions = <<>>

\* main() up to the check of the regions
GenParse ==
    /\ maskgen.pc = "parse"
    /\ IF ~maskgen.video_exists
       THEN maskgen' = GenRaise("FileNotFoundError", "parse")
       ELSE LET json_regions == parse_json_regions(maskgen.region_json)
                parsed == parse_regions(ReadRegions(maskgen.cli_regions \o json_regions),
                                        maskgen.origin)
            IN  IF parsed.raised \/ NoRegions(parsed.regions)
                THEN maskgen' = GenRaise("ValueError", "parse")
                ELSE maskgen' = [maskgen EXCEPT !.pc = "render", !.regions = parsed.regions]
    /\ UNCHANGED <<main_vars, list_file, runs, wrapper>>

\* get_video_metadata and render_mask; the capture may fail to open
GenRender ==
    /\ maskgen.pc = "render"
    /\ \E opened \in BOOLEAN :
          IF ~opened
          THEN maskgen' = GenRaise("ValueError", "metadata")
          ELSE LET rendered == render_mask(maskgen.size[1], maskgen.size[2],
                                           maskgen.regions, maskgen.origin)
               IN  IF rendered.raised
                   THEN maskgen' = GenRaise("ValueError", "render")
                   ELSE maskgen' = [maskgen EXCEPT
                                       !.pc = "write",
                                       !.mask = [rendered |-> TRUE,
                                                 rectangles |-> rendered.rectangles]]
    /\ UNCHANGED <<main_vars, list_file, runs, wrapper>>

\* write_per_frame_masks or write_single_mask; cv2.imwrite may fail.  The
\* file is at the wrapper's mask_path when the wrapper launched the run.
GenWrite ==
    /\ maskgen.pc = "write"
    /\ \E wrote \in BOOLEAN :
          IF maskgen.per_frame /\ maskgen.output_suffix
          THEN /\ maskgen' = GenRaise("ValueError", "write")
               /\ UNCHANGED wrapper
          ELSE IF ~wrote
          THEN /\ maskgen' = GenRaise("OSError", "write")
               /\ UNCHANGED wrapper
          ELSE /\ maskgen' = [maskgen EXCEPT
                                 !.pc = "exited",
                                 !.written = IF maskgen.per_frame THEN "frames" ELSE "single"]
               /\ wrapper' = IF wrapper.pc = "wait_mask"
                             THEN [wrapper EXCEPT !.mask_file = TRUE]
                             ELSE wrapper
    /\ UNCHANGED <<main_vars, list_file, runs>>

(***************************************************************************)
(* scripts/remove_subtitles.py: the one-click wrapper.  It launches the    *)
(* generator above as a child process and then the inference script.       *)
(***************************************************************************)
\* str(v) of a float: the shortest numeral that reads back as v
Repr(x) == CHOOSE k \in Numerals : FromDecimal(k, CoordScale) = x

ReprRegion(region) == [k \in 1..4 |-> Repr(region[k])]

\* The wrapper after parse_args.
WrapperStart(video, cli, json, origin, size, mask_output, keep_mask) ==
    [pc |-> "validate", video_exists |-> video, regions |-> cli, region_json |-> json,
     origin |-> origin, size |-> size, mask_output |-> mask_output,
     keep_mask |-> keep_mask, temp_dir |-> "none", mask_file |-> FALSE, exc |-> "none"]

\* main() up to the try statement
WrapperValidate ==
    /\ wrapper.pc = "validate"
    /\ IF ~wrapper.video_exists
       THEN wrapper' = [wrapper EXCEPT !.pc = "exited", !.exc = "FileNotFoundError"]
       ELSE IF wrapper.regions = <<>> /\ ~wrapper.region_json.given
       THEN wrapper' = [wrapper EXCEPT !.pc = "exited", !.exc = "ValueError"]
       ELSE wrapper' = [wrapper EXCEPT
                           !.pc = "build_mask",
                           !.temp_dir = IF wrapper.mask_output THEN "none" ELSE "exists"]
    /\ UNCHANGED <<main_vars, list_file, runs, maskgen>>

\* build_mask: the command line of the generator, and its launch
BuildMask ==
    /\ wrapper.pc = "build_mask"
    /\ maskgen' = GenStart(TRUE,
                           [k \in 1..Len(wrapper.regions) |->
                               ReprRegion(ReadRegion(wrapper.regions[k]))],
                           wrapper.region_json, wrapper.origin, wrapper.size, FALSE, TRUE)
    /\ wrapper' = [wrapper EXCEPT !.pc = "wait_mask"]
    /\ UNCHANGED <<main_vars, list_file, runs>>

\* subprocess.run(cmd, check=True) returns, or raises on a non-zero exit
BuildMaskReturn ==
    /\ wrapper.pc = "wait_mask"
    /\ maskgen.pc = "exited"
    /\ wrapper' = IF maskgen.exc = "none"
                  THEN [wrapper EXCEPT !.pc = "inference"]
                  ELSE [wrapper EXCEPT !.pc = "finally", !.exc = "CalledProcessError"]
    /\ UNCHANGED <<main_vars, list_file, runs, maskgen>>

\* Ctrl-C while the generator runs reaches both processes
BuildMaskInterrupted ==
    /\ wrapper.pc = "wait_mask"
    /\ maskgen.pc # "exited"
    /\ maskgen' = GenRaise("KeyboardInterrupt", "interrupt")
    /\ wrapper' = [wrapper EXCEPT !.pc = "finally", !.exc = "KeyboardInterrupt"]
    /\ UNCHANGED <<main_vars, list_file, runs>>

\* run_inference
RunInference ==
    /\ wrapper.pc = "inference"
    /\ \E status \in RunStatus :
          wrapper' = [wrapper EXCEPT
                         !.pc = "finally",
                         !.exc = IF status = "ok" THEN "none" ELSE RunError(status)]
    /\ UNCHANGED <<main_vars, list_file, runs, maskgen>>

\* The finally clause: os.remove(mask_path) raises FileNotFoundError, an
\* OSError, when the mask was never written, and os.rmdir is then skipped.
WrapperFinally ==
    /\ wrapper.pc = "finally"
    /\ IF wrapper.temp_dir = "exists" /\ ~wrapper.keep_mask
       THEN IF wrapper.mask_file
            THEN wrapper' = [wrapper EXCEPT
                                !.pc = "exited", !.mask_file = FALSE, !.temp_dir = "removed"]
            ELSE wrapper' = [wrapper EXCEPT !.pc = "exited"]
       ELSE wrapper' = [wrapper EXCEPT !.pc = "exited"]
    /\ UNCHANGED <<main_vars, list_file, runs, maskgen>>

\* --per-frame and whether the output path has a suffix
OutputModes == {<<FALSE, TRUE>>, <<TRUE, FALSE>>, <<TRUE, TRUE>>}

\* Either the generator is run on its own, or the wrapper is run.
InitMask ==
    /\ MainNotStarted
    /\ list_file = NoFile
    /\ runs = NoRuns
    /\ \E video \in BOOLEAN, cli \in RegionLists, json \in JsonInputs,
          origin \in Origins, size \in ImageSizes :
          \/ /\ wrapper = NotStarted
             /\ \E out \in OutputModes :
                   maskgen = GenStart(video, cli, json, origin, size, out[1], out[2])
          \/ /\ maskgen = NotStarted
             /\ \E mask_output \in BOOLEAN, keep_mask \in BOOLEAN :
                   wrapper = WrapperStart(video, cli, json, origin, size,
                                          mask_output, keep_mask)

NextMask ==
    \/ GenParse
    \/ GenRender
    \/ GenWrite
    \/ WrapperValidate
    \/ BuildMask
    \/ BuildMaskReturn
    \/ BuildMaskInterrupted
    \/ RunInference
    \/ WrapperFinally

SpecMask == InitMask /\ [][NextMask]_vars

(***************************************************************************)
(* Properties.                                                              *)
(***************************************************************************)
CallIndices == 1..Len(calls)

IsCall(k, tool) == calls[k].tool = tool

\* The number a segment file name carries between "segment_" and ".mp4".
RECURSIVE DecimalValue(_)
DecimalValue(s) ==
    IF s = <<>> THEN 0
    ELSE 10 * DecimalValue(SubSeq(s, 1, Len(s) - 1)) + (s[Len(s)] - 48)

NumericSuffix(name) ==
    DecimalValue(SubSeq(name, Len(SegmentPrefix) + 1, Len(name) - Len(SegmentSuffix)))

\* The results of the segments split_video returned, in its order.
ExpectedManifest ==
    [k \in 1..Len(segments) |-> ManifestLine(ResultVideo(segments[k]))]

\* C1: whenever a run reaches the merge step with at least one processed
\* segment, the manifest merge_videos writes (the one the concatenation
\* reads, and the one left on disk if it stays) lists the result of the
\* k-th segment split_video returned on line k: nothing reordered, dropped
\* or duplicated.
C1_ManifestOrder ==
    (merged # "not_called" /\ Len(processed_videos) >= 1) =>
        /\ \A k \in CallIndices :
              IsCall(k, "concat") => calls[k].arg = ExpectedManifest
        /\ list_file.exists => list_file.lines = ExpectedManifest

C1_Witness ==
    /\ merged = "returned"
    /\ Len(segments) >= 2
    /\ \E k \in CallIndices : IsCall(k, "concat") /\ Len(calls[k].arg) = Len(segments)

\* C2: what split_video returns is sorted by numeric suffix ascending,
\* for every number of files the toolchain emits, four-digit indices
\* included.
C2_SortedByNumericSuffix ==
    pc = "loop" =>
        \A k \in 1..(Len(segments) - 1) :
            NumericSuffix(segments[k]) < NumericSuffix(segments[k + 1])

\* C3: once the workspace has been created, when main() has ended (by a
\* return or by an exception leaving it) the workspace is deleted if and
\* only if --keep_segments was not given.
C3_WorkspaceCleanup ==
    (pc = "done" /\ temp_dir # "unset") =>
        ((temp_dir = "removed") <=> ~keep_segments)

C3_Witness ==
    /\ pc = "done"
    /\ temp_dir = "removed"
    /\ exc = "FileNotFoundError"
    /\ Len(processed_videos) >= 1

\* C4: when the inference process of a segment exits non-zero, nothing is
\* run after it (no later segment, no second attempt at this one, no
\* merge), the segments before it are the only ones processed, and when
\* main() has ended it has returned 1 with the workspace removed unless
\* --keep_segments was given.
C4_FailFast ==
    \A k \in CallIndices :
        (IsCall(k, "inference") /\ calls[k].status = "nonzero") =>
            /\ k = Len(calls)
            /\ merged = "not_called"
            /\ i < Len(segments)
            /\ calls[k].arg = segments[i + 1]
            /\ Len(processed_videos) = i
            /\ \A j \in 1..(k - 1) :
                  IsCall(j, "inference") => calls[j].arg # calls[k].arg
            /\ pc = "done" =>
                  /\ result = "return 1"
                  /\ ~keep_segments => temp_dir = "removed"

C4_Witness ==
    /\ pc = "done"
    /\ ~keep_segments
    /\ temp_dir = "removed"
    /\ i >= 1
    /\ i + 1 < Len(segments)
    /\ IsCall(Len(calls), "inference")
    /\ calls[Len(calls)].status = "nonzero"

\* C5: when merge_videos has returned or raised, the manifest file does
\* not exist.
C5_ManifestDeleted == merged # "not_called" => ~list_file.exists

\* C6: when split_video returns zero segments the run aborts: no segment
\* is processed, merge_videos is never called, and main() returns 1.
C6_ZeroSegmentsAbort ==
    (pc \notin {"validate", "probe", "split"} /\ segments = <<>>
        /\ \E k \in CallIndices : IsCall(k, "segment") /\ calls[k].status = "ok") =>
        /\ merged = "not_called"
        /\ \A k \in CallIndices : ~IsCall(k, "inference")
        /\ pc = "done" => result = "return 1"

\* C7: merge_videos called with an empty list raises, having written no
\* manifest and run no concatenation.
C7_EmptyInputRejected ==
    (merged # "not_called" /\ processed_videos = <<>>) =>
        /\ merged = "raised"
        /\ ~list_file.exists
        /\ \A k \in CallIndices : ~IsCall(k, "concat")

\* C8: main() always ends by returning 0 or 1, never by an exception
\* leaving it: 0 when the merge succeeded, 1 on every failure and on an
\* interrupt.
C8_BinaryResult ==
    pc = "done" =>
        /\ Outcome \in {"return 0", "return 1"}
        /\ Outcome = "return 0" <=> merged = "returned"

\* C9: process_segment returns a result path only if inpaint_out.mp4
\* exists in the segment's output subdirectory; when the inference process
\* exited zero without it, FileNotFoundError is raised, the segment's
\* result is not in the list and merge_videos is never called.
C9_ResultOnlyIfArtifact ==
    /\ temp_dir = "exists" =>
          /\ \A k \in 1..Len(processed_videos) : processed_videos[k] \in fs_results
          /\ \A k \in CallIndices :
                (/\ IsCall(k, "inference")
                 /\ calls[k].status = "ok"
                 /\ ResultVideo(calls[k].arg) \notin fs_results) =>
                    exc = "FileNotFoundError"
    /\ exc = "FileNotFoundError" =>
          /\ merged = "not_called"
          /\ IsCall(Len(calls), "inference")
          /\ calls[Len(calls)].status = "ok"
          /\ \A k \in 1..Len(processed_videos) :
                processed_videos[k] # ResultVideo(calls[Len(calls)].arg)
          /\ \A k \in CallIndices : ~IsCall(k, "concat")

C9_Witness ==
    /\ pc = "done"
    /\ keep_segments
    /\ exc = "FileNotFoundError"
    /\ Len(processed_videos) >= 1
    /\ ResultVideo(calls[Len(calls)].arg) \notin fs_results

\* C10: when the input video or the mask does not exist, main() returns 1
\* without having run any external process or created a workspace.
C10_ValidationFirst ==
    ~(video_exists /\ mask_exists) =>
        /\ calls = <<>>
        /\ temp_dir = "unset"
        /\ pc \in {"validate", "done"}
        /\ pc = "done" => result = "return 1"

C10_Witness ==
    /\ pc = "done"
    /\ video_exists
    /\ ~mask_exists
    /\ result = "return 1"

\* C11: a user interrupt during a blocking external call (probe, split,
\* inference or merge) ends the run: no external call follows it, and when
\* main() has ended it has returned 1, the workspace removed unless
\* --keep_segments was given.
C11_InterruptAborts ==
    \A k \in CallIndices :
        calls[k].status = "interrupted" =>
            /\ k = Len(calls)
            /\ exc = "KeyboardInterrupt"
            /\ pc \in {"except_KeyboardInterrupt", "finally", "done"}
            /\ pc = "done" =>
                  /\ result = "return 1"
                  /\ (temp_dir = "removed") <=> ~keep_segments

C11_Witness ==
    /\ pc = "done"
    /\ ~keep_segments
    /\ temp_dir = "removed"
    /\ result = "return 1"
    /\ Len(processed_videos) >= 1
    /\ IsCall(Len(calls), "concat")
    /\ calls[Len(calls)].status = "interrupted"

\* The external calls of a run in which everything succeeded: the probe,
\* the split, one inference per returned segment in the returned order,
\* then one merge.
SuccessfulCalls ==
    <<Call("ffprobe", <<>>, <<>>, "ok"), Call("segment", <<>>, <<>>, "ok")>>
    \o [k \in 1..Len(segments) |->
            Call("inference", segments[k], ResultsDir, "ok")]
    \o <<Call("concat", ExpectedManifest, "output", "ok")>>

\* C12: main() returns 0 only after the probe, the split, the inference of
\* each returned segment (once each, in the returned order) and one merge
\* have all succeeded; and when such a run has ended without
\* --keep_segments the workspace no longer exists.
C12_SuccessMeansAllStages ==
    result = "return 0" =>
        /\ calls = SuccessfulCalls
        /\ Len(processed_videos) = Len(segments)
        /\ merged = "returned"
        /\ (pc = "done" /\ ~keep_segments) => temp_dir = "removed"

C12_Witness ==
    /\ pc = "done"
    /\ result = "return 0"
    /\ ~keep_segments
    /\ temp_dir = "removed"
    /\ Len(segments) >= 2

\* The directory a path lies in.
DirectoryOf(path) == SubSeq(path, 1, Len(path) - 1)

\* C17 as stated: the output directory handed to the inference process is
\* the per-segment subdirectory results_dir/<segment name>, the directory
\* in which process_segment afterwards looks for inpaint_out.mp4.
C17_OutputIsSubdirectory ==
    \A k \in CallIndices :
        IsCall(k, "inference") =>
            /\ calls[k].out = <<"results", Stem(calls[k].arg)>>
            /\ calls[k].out = DirectoryOf(ResultVideo(calls[k].arg))

\* C17 amended: the output directory handed to the inference process is
\* results_dir itself, and process_segment afterwards looks for
\* inpaint_out.mp4 one level below it, in results_dir/<segment name>.
C17_OutputIsResultsDir ==
    \A k \in CallIndices :
        IsCall(k, "inference") =>
            /\ calls[k].out = <<"results">>
            /\ ResultVideo(calls[k].arg)
                  = calls[k].out \o <<Stem(calls[k].arg), "inpaint_out.mp4">>
            /\ calls[k].out = DirectoryOf(DirectoryOf(ResultVideo(calls[k].arg)))

C17_Witness ==
    /\ Len(processed_videos) >= 1
    /\ IsCall(Len(calls), "inference")
    /\ calls[Len(calls)].status = "ok"
    /\ calls[Len(calls)].out = <<"results">>
    /\ processed_videos[Len(processed_videos)] \in fs_results

\* The probe succeeded and main() has computed its estimate.
Probed ==
    /\ Len(calls) >= 1
    /\ calls[1].status = "ok"
    /\ ~(Len(calls) = 1 /\ exc = "ValueError")

CeilDiv(a, b) == (a + b - 1) \div b

\* ceil(D / S) for the probed duration D (duration ticks) and the segment
\* length S (segment_duration seconds).
CeilSegments == CeilDiv(duration, segment_duration * TicksPerSecond)

DurationIsMultiple == duration % (segment_duration * TicksPerSecond) = 0

\* C20: the estimate int(D / S) + 1 is never below ceil(D / S); it equals
\* ceil(D / S) unless D is an exact multiple of S, and then it is
\* ceil(D / S) + 1.  The number of segments processed is the number
\* split_video returned, whatever the estimate.
C20_EstimateVersusCeil ==
    /\ Probed =>
          /\ estimated_segments >= CeilSegments
          /\ ~DurationIsMultiple => estimated_segments = CeilSegments
          /\ DurationIsMultiple => estimated_segments = CeilSegments + 1
    /\ merged # "not_called" =>
          /\ Len(processed_videos) = Len(segments)
          /\ Cardinality({k \in CallIndices : IsCall(k, "inference")}) = Len(segments)

C20_Witness ==
    /\ result = "return 0"
    /\ duration > 0
    /\ DurationIsMultiple
    /\ estimated_segments = CeilSegments + 1
    /\ Len(segments) > estimated_segments

\* C15: the cleanup step run a second time, after the run has ended, raises
\* nothing and changes nothing: the workspace, its files, the exception
\* and the result of the run stay as the first cleanup left them.
C15_CleanupIdempotent ==
    [][(pc = "done" /\ pc' = "cleaned_again") =>
          /\ temp_dir' = temp_dir
          /\ fs_segments' = fs_segments
          /\ fs_results' = fs_results
          /\ exc' = exc
          /\ result' = result]_vars

C15_Witness ==
    /\ pc = "cleaned_again"
    /\ ~keep_segments
    /\ temp_dir = "removed"
    /\ exc = "none"
    /\ result = "return 0"

\* C18: with two runs at the same time, the manifest a run's concatenation
\* reads is that run's own, line for line, and between a run's writing of
\* its manifest and its concatenation the file is still there with that
\* run's lines: the other run has neither overwritten nor deleted it.
C18_ManifestIsolation ==
    \A r \in DOMAIN runs :
        /\ runs[r].read.done => runs[r].read.lines = Manifest(runs[r].video_list)
        /\ runs[r].pc = "concat" =>
              list_file = [exists |-> TRUE, lines |-> Manifest(runs[r].video_list)]
        /\ runs[r].pc = "unlink" => list_file.exists

\* The generator was given no region at all.
ZeroRegions ==
    /\ maskgen.pc # "not_started"
    /\ maskgen.cli_regions = <<>>
    /\ parse_json_regions(maskgen.region_json) = <<>>

\* C14: given zero regions, mask generation fails with a validation error
\* before any mask is rendered or written: the generator never gets past
\* its parsing step and ends with ValueError (FileNotFoundError when the
\* video is missing too), and the wrapper given neither --region nor
\* --region-json ends the same way without launching the generator.
C14_ZeroRegionsRejected ==
    /\ ZeroRegions =>
          /\ maskgen.pc \in {"parse", "exited"}
          /\ maskgen.mask = NoMask
          /\ maskgen.written = "none"
          /\ maskgen.pc = "exited" => maskgen.exc # "none"
          /\ (maskgen.pc = "exited" /\ maskgen.exc # "KeyboardInterrupt") =>
                /\ maskgen.failed_at = "parse"
                /\ maskgen.exc = IF maskgen.video_exists THEN "ValueError"
                                 ELSE "FileNotFoundError"
    /\ (/\ wrapper.pc # "not_started"
        /\ wrapper.regions = <<>>
        /\ ~wrapper.region_json.given) =>
          /\ wrapper.pc \in {"validate", "exited"}
          /\ maskgen = NotStarted
          /\ wrapper.temp_dir = "none"
          /\ wrapper.pc = "exited" =>
                wrapper.exc = IF wrapper.video_exists THEN "ValueError"
                              ELSE "FileNotFoundError"

C14_Witness ==
    /\ ZeroRegions
    /\ maskgen.video_exists
    /\ maskgen.pc = "exited"
    /\ maskgen.exc = "ValueError"

\* The generator was given exactly this region, with this origin, for a
\* video of 1000x500 pixels.
RegionCase(region, origin) ==
    /\ maskgen.pc # "not_started"
    /\ maskgen.video_exists
    /\ maskgen.cli_regions = <<region>>
    /\ parse_json_regions(maskgen.region_json) = <<>>
    /\ maskgen.origin = origin
    /\ maskgen.size = <<1000, 500>>

\* The white pixels of the mask are these columns of these rows.
WhiteRectangle(columns, rows) ==
    /\ Len(maskgen.mask.rectangles) = 1
    /\ Columns(maskgen.mask.rectangles[1]) = columns
    /\ Rows(maskgen.mask.rectangles[1]) = rows

\* C13 as stated: region [0.1, 0.2, 0.9, 0.8] with left-bottom origin and a
\* 1000x500 image is accepted by parse_regions, and the rendered mask's
\* white rectangle is columns [100, 900) of rows [100, 400).
C13_RegionAccepted ==
    RegionCase(<<1, 2, 9, 8>>, "left-bottom") =>
        /\ maskgen.failed_at # "parse"
        /\ maskgen.mask.rendered => WhiteRectangle(100..899, 100..399)

\* C13: region [0.1, 0.2, 0.9, 0.8] with left-bottom origin is rejected by
\* parse_regions with ValueError and no mask is rendered; on a 1000x500
\* image the same region with left-top origin is accepted and rendered as
\* columns [100, 900) of rows [100, 400), and region [0.1, 0.8, 0.9, 0.2]
\* with left-bottom origin is accepted and rendered as columns [100, 900)
\* of rows [99, 400).
C13_RegionRejectedOrRendered ==
    /\ RegionCase(<<1, 2, 9, 8>>, "left-bottom") =>
          /\ maskgen.pc \in {"parse", "exited"}
          /\ maskgen.mask = NoMask
          /\ (maskgen.pc = "exited" /\ maskgen.exc # "KeyboardInterrupt") =>
                (maskgen.exc = "ValueError" /\ maskgen.failed_at = "parse")
    /\ RegionCase(<<1, 2, 9, 8>>, "left-top") =>
          /\ maskgen.failed_at \notin {"parse", "render"}
          /\ maskgen.mask.rendered => WhiteRectangle(100..899, 100..399)
    /\ RegionCase(<<1, 8, 9, 2>>, "left-bottom") =>
          /\ maskgen.failed_at \notin {"parse", "render"}
          /\ maskgen.mask.rendered => WhiteRectangle(100..899, 99..399)

C13_Witness ==
    /\ RegionCase(<<1, 2, 9, 8>>, "left-bottom")
    /\ maskgen.pc = "exited"
    /\ maskgen.exc = "ValueError"
    /\ maskgen.failed_at = "parse"

\* C19: when the wrapper was given no --mask-output and no --keep-mask, the
\* temporary mask directory it created no longer exists when it ends.
C19_TempMaskDirRemoved ==
    (wrapper.pc = "exited" /\ wrapper.temp_dir # "none" /\ ~wrapper.keep_mask) =>
        wrapper.temp_dir = "removed"

====
